---- MODULE Spec2Model ----
(***************************************************************************)
(* uTimerLib on the Atmel AVR (Timer2) build of src/src/uTimerLib.cpp.     *)
(*                                                                         *)
(* Two contexts share the timer object: the normal execution context,      *)
(* which runs setInterval_us / setTimeout_us / setInterval_s /             *)
(* setTimeout_s / clearTimer one statement at a time, and the interrupt    *)
(* context, ISR(TIMER2_OVF_vect), which runs uTimerLib::_interrupt to      *)
(* completion whenever the overflow flag is pending, the overflow          *)
(* interrupt is enabled and the global interrupt flag is set.              *)
(*                                                                         *)
(* Spec and FairSpec take the callback as an opaque step of the handler.   *)
(* ReentrantSpec splits the handler at the call of _cb() and lets the      *)
(* callback call clearTimer() or a set* function. Stm32Spec is the STM32   *)
(* (Timer3) build of the same file. PlanSpec takes whole set* calls over   *)
(* the full range of the 32 bit counters.                                  *)
(***************************************************************************)
EXTENDS Integers, FiniteSets, Sequences, TLC

(***************************************************************************)
(* Bounds of the model.                                                    *)
(***************************************************************************)
\* largest number of whole 16384 us periods in a microsecond request
MaxPeriods == 2
\* largest plain seconds request
MaxSeconds == 1
\* the per-callback invocation counter saturates here
MaxCalls == 2

(***************************************************************************)
(* Program constants (AVR, 16 MHz, prescaler table of _attachInterrupt_us) *)
(***************************************************************************)
\* overflow delay with prescaler 1024, in microseconds
OverflowUs == 16384
\* base delay (one tick) with prescaler 1024, in microseconds
TickUs == 64
\* counts of the 8 bit counter TCNT2 before it overflows
CounterRange == 256
\* microseconds per second, the factor of the seconds entry points
MicrosPerSecond == 1000000
\* threshold of the previous _overflows that selects divide-first
DivideFirstAbove == 500000
\* 16 bit limb of the 32 bit unsigned long arithmetic
Limb == 2^16

UTIMERLIB_TYPE_OFF == "OFF"
UTIMERLIB_TYPE_TIMEOUT == "TIMEOUT"
UTIMERLIB_TYPE_INTERVAL == "INTERVAL"

NULL == "NULL"
Callbacks == {"cbA", "cbB"}

\* remainders (in microseconds) tried on top of whole periods: none, the
\* 3616 of the 20000 us scenario, and the largest one
Remainders == {0, 3616, OverflowUs - 1}
DurationsUs ==
    {0, 10, 300}
        \cup {OverflowUs * k + r : k \in 1..MaxPeriods, r \in Remainders}
\* 67108864 s is the smallest request whose product with 1000000 is 0 mod 2^32
DurationsS == (0..MaxSeconds) \cup {67108864}

SetOps == {"setInterval_us", "setTimeout_us", "setInterval_s", "setTimeout_s"}
IsSeconds(op) == op \in {"setInterval_s", "setTimeout_s"}
Durations(op) == IF IsSeconds(op) THEN DurationsS ELSE DurationsUs
TypeOf(op) ==
    IF op \in {"setInterval_us", "setInterval_s"}
    THEN UTIMERLIB_TYPE_INTERVAL
    ELSE UTIMERLIB_TYPE_TIMEOUT

VARIABLES
    \* the object's fields
    _type, _cb, _overflows, _remaining, __overflows, __remaining,
    \* Timer2 and the status register
    TOIE2, SREG_I, TOV2, TCNT2, CS2,
    \* the normal context: position in the running call, and the call
    pc, call,
    \* observation of the run
    ncalls, legs, legsAtCb, ticks, ticksAtCb, legLoad, ignored, pre, armed0,
    parity,
    \* the interrupt context while a callback runs: the stack of the
    \* _interrupt activations that have called _cb() and not yet returned
    isr,
    \* the STM32 build: the hardware timer and the _toInit field
    Timer3, _toInit

fields == <<_type, _cb, _overflows, _remaining, __overflows, __remaining>>
hw == <<TOIE2, SREG_I, TOV2, TCNT2, CS2>>
obs == <<ncalls, legs, legsAtCb, ticks, ticksAtCb, legLoad, ignored, pre,
         armed0, parity>>
ext == <<isr, Timer3, _toInit>>
vars == <<fields, hw, pc, call, obs, ext>>

(***************************************************************************)
(* Arithmetic of the plan.                                                 *)
(***************************************************************************)
\* 256 - (v + 0.5) stored in the unsigned char _remaining: the double is
\* computed in halves and the conversion truncates it
RoundLoad(v) == ((2 * CounterRange - (2 * v + 1)) \div 2) % CounterRange

\* a * 1000000 in unsigned long (mod 2^32), as 16 bit limbs <<high, low>>;
\* 1000000 is taken limb by limb (15 * 65536 + 16960)
MulMicros(a) ==
    LET al == a % Limb
        ah == a \div Limb
        mh == MicrosPerSecond \div Limb
        ml == MicrosPerSecond % Limb
        low == al * ml
    IN  <<(low \div Limb + al * mh + ah * ml) % Limb, low % Limb>>
\* quotient and remainder of a two limb value by 16384
LimbsDivPeriod(x) == x[1] * (Limb \div OverflowUs) + x[2] \div OverflowUs
LimbsModPeriod(x) == x[2] % OverflowUs
LimbsValue(x) == x[1] * Limb + x[2]

\* _attachInterrupt_us, AVR: the prescaler mask and the plan for us > 0
PlanUs(us) ==
    IF us >= OverflowUs
    THEN [cs |-> 7, overflows |-> us \div OverflowUs,
          remaining |-> RoundLoad((us % OverflowUs) \div TickUs)]
    ELSE IF us >= 4096
    THEN [cs |-> 7, overflows |-> 0, remaining |-> RoundLoad(us \div 64)]
    ELSE IF us >= 2048
    THEN [cs |-> 6, overflows |-> 0, remaining |-> RoundLoad(us \div 16)]
    ELSE IF us >= 1024
    THEN [cs |-> 5, overflows |-> 0, remaining |-> RoundLoad(us \div 8)]
    ELSE IF us >= 512
    THEN [cs |-> 4, overflows |-> 0, remaining |-> RoundLoad(us \div 4)]
    ELSE IF us >= 128
    THEN [cs |-> 3, overflows |-> 0, remaining |-> RoundLoad(us \div 2)]
    ELSE IF us >= 16
    THEN [cs |-> 2, overflows |-> 0,
          remaining |-> (CounterRange - us * 2) % CounterRange]
    ELSE [cs |-> 1, overflows |-> 0,
          remaining |-> (CounterRange - us * 16) % CounterRange]

\* (PlanSLowThreshold is the mutation that divides first after any timer
\* that left whole periods in _overflows)
\* _attachInterrupt_s, AVR: the plan for s > 0; prev is the value _overflows
\* holds when the call is made
PlanSLowThreshold(s, prev) ==
    [cs |-> 7,
     overflows |->
        IF prev > 0
        THEN LimbsValue(MulMicros(s \div OverflowUs))
        ELSE LimbsDivPeriod(MulMicros(s)),
     remaining |->
        IF s > OverflowUs
        THEN LET temp == (s \div OverflowUs) * OverflowUs
             IN  RoundLoad(LimbsModPeriod(MulMicros(s - temp)) \div TickUs)
        ELSE RoundLoad(LimbsModPeriod(MulMicros(s)) \div TickUs)]
PlanS(s, prev) ==
    [cs |-> 7,
     overflows |->
        IF prev > DivideFirstAbove
        THEN LimbsValue(MulMicros(s \div OverflowUs))
        ELSE LimbsDivPeriod(MulMicros(s)),
     remaining |->
        IF s > OverflowUs
        THEN LET temp == (s \div OverflowUs) * OverflowUs
             IN  RoundLoad(LimbsModPeriod(MulMicros(s - temp)) \div TickUs)
        ELSE RoundLoad(LimbsModPeriod(MulMicros(s)) \div TickUs)]

Plan(op, d, prev) == IF IsSeconds(op) THEN PlanS(d, prev) ELSE PlanUs(d)

\* the value written to TCNT2 when the registers are programmed
FirstLoad(ovf, rem) == IF ovf = 0 THEN rem ELSE 0
\* _remaining after the registers are programmed: only the microsecond
\* entry clears it when the remainder leg is loaded at once
RemainingAfterLoad(op, ovf, rem) ==
    IF ovf = 0 /\ ~IsSeconds(op) THEN 0 ELSE rem

(***************************************************************************)
(* The initial state: the object as constructed (the AVR constructor does  *)
(* nothing), Timer2 stopped, interrupts enabled by the runtime.            *)
(***************************************************************************)
NoCalls == [c \in Callbacks \cup {NULL} |-> 0]
NoCall == [op |-> "none", cb |-> NULL, d |-> 0]

Init ==
    /\ _type = UTIMERLIB_TYPE_OFF
    /\ _cb = NULL
    /\ _overflows = 0 /\ _remaining = 0
    /\ __overflows = 0 /\ __remaining = 0
    /\ TOIE2 = FALSE /\ SREG_I = TRUE /\ TOV2 = FALSE
    /\ TCNT2 = 0 /\ CS2 = 0
    /\ pc = "idle" /\ call = NoCall
    /\ ncalls = NoCalls
    /\ legs = 0 /\ legsAtCb = 0 /\ ticks = 0 /\ ticksAtCb = 0
    /\ legLoad = 0 /\ ignored = FALSE
    /\ pre = [type |-> UTIMERLIB_TYPE_OFF, cb |-> NULL, fresh |-> TRUE,
              plan |-> <<>>]
    /\ armed0 = <<0, 0, 0>>
    /\ parity = FALSE
    /\ isr = <<>>
    /\ Timer3 = [running |-> FALSE, attached |-> FALSE, period |-> 0]
    /\ _toInit = TRUE

(***************************************************************************)
(* The normal execution context, one statement per step.                   *)
(***************************************************************************)
\* the counters and the enable bit a request of duration 0 found
PlanSnapshot == <<_overflows, _remaining, __overflows, __remaining, TOIE2>>

\* mutation: clearTimer leaves the mode as it is
ClearedTypeKept == _type

\* the value clearTimer writes to _type
ClearedType == UTIMERLIB_TYPE_OFF

\* clearTimer's first statement, _type = UTIMERLIB_TYPE_OFF, on entry to
\* clearTimer itself or to a set* call, which starts with clearTimer().
\* The duration of a set* call is not read before the zero guard of
\* _attachInterrupt_us / _attachInterrupt_s: it is drawn there, and
\* call.d is 0 until then.
Enter(op, cb) ==
    /\ pc = "idle"
    /\ call' = [op |-> op, cb |-> cb, d |-> 0]
    /\ pre' = [type |-> _type, cb |-> _cb,
               fresh |-> _type # UTIMERLIB_TYPE_OFF /\ legs = 0
                            /\ ncalls = NoCalls,
               plan |-> IF op \in SetOps THEN PlanSnapshot ELSE <<>>]
    /\ _type' = ClearedType
    /\ pc' = "clear_timsk"
    /\ ncalls' = NoCalls
    /\ legs' = 0 /\ legsAtCb' = 0 /\ ticks' = 0 /\ ticksAtCb' = 0
    /\ ignored' = FALSE /\ parity' = FALSE
    /\ UNCHANGED <<_cb, _overflows, _remaining, __overflows, __remaining,
                   hw, legLoad, armed0, ext>>

clearTimer == Enter("clearTimer", NULL)

setInterval_us == \E cb \in Callbacks : Enter("setInterval_us", cb)

setTimeout_us == \E cb \in Callbacks : Enter("setTimeout_us", cb)

setInterval_s == \E cb \in Callbacks : Enter("setInterval_s", cb)

setTimeout_s == \E cb \in Callbacks : Enter("setTimeout_s", cb)

\* mutation: clearTimer masks nothing
NotDisabled(bit) == bit

\* a bit cleared by clearTimer: TOIE2 of TIMSK2, bit 7 of SREG
Disabled(bit) == FALSE

\* TIMSK2 &= ~(1 << TOIE2)
ClearTimsk ==
    /\ pc = "clear_timsk"
    /\ TOIE2' = Disabled(TOIE2)
    /\ pc' = "clear_sreg"
    /\ UNCHANGED <<fields, SREG_I, TOV2, TCNT2, CS2, call, obs, ext>>

\* SREG = (SREG & 0b01111111); clearTimer returns
ClearSreg ==
    /\ pc = "clear_sreg"
    /\ SREG_I' = Disabled(SREG_I)
    /\ pc' = IF call.op = "clearTimer" THEN "idle" ELSE "set_cb"
    /\ UNCHANGED <<fields, TOIE2, TOV2, TCNT2, CS2, call, obs, ext>>

\* mutations: the set* call keeps the callback it found; it stores none
StoredCbStale(cb) == _cb
StoredCbNone(cb) == NULL

\* the callback a set* call stores
StoredCb(cb) == cb

\* _cb = cb
SetCb ==
    /\ pc = "set_cb"
    /\ _cb' = StoredCb(call.cb)
    /\ pc' = "set_type"
    /\ UNCHANGED <<_type, _overflows, _remaining, __overflows, __remaining,
                   hw, call, obs, ext>>

\* _type = UTIMERLIB_TYPE_INTERVAL, or UTIMERLIB_TYPE_TIMEOUT
SetType ==
    /\ pc = "set_type"
    /\ _type' = TypeOf(call.op)
    /\ pc' = "attach"
    /\ UNCHANGED <<_cb, _overflows, _remaining, __overflows, __remaining,
                   hw, call, obs, ext>>

\* _attachInterrupt_us / _attachInterrupt_s: the zero guard, then cli()
AttachGuard ==
    /\ pc = "attach"
    /\ \E d \in Durations(call.op) :
          /\ call' = [call EXCEPT !.d = d]
          /\ IF d = 0
             THEN pc' = "idle" /\ UNCHANGED <<SREG_I, pre>>
             ELSE /\ pc' = "plan"
                  /\ SREG_I' = FALSE
                  /\ pre' = [pre EXCEPT !.plan = <<>>]
    /\ UNCHANGED <<fields, TOIE2, TOV2, TCNT2, CS2,
                   ncalls, legs, legsAtCb, ticks, ticksAtCb, legLoad, ignored,
                   armed0, parity, ext>>

\* _overflows, _remaining, then __overflows = _overflows and
\* __remaining = _remaining
AttachPlan ==
    /\ pc = "plan"
    /\ LET p == Plan(call.op, call.d, _overflows)
       IN  /\ _overflows' = p.overflows
           /\ _remaining' = p.remaining
           /\ __overflows' = p.overflows
           /\ __remaining' = p.remaining
    /\ pc' = "registers"
    /\ UNCHANGED <<_type, _cb, hw, call, obs, ext>>

\* TCCR2B takes the prescaler; the counter is loaded with the remainder
\* when there is no whole period, and cleared otherwise
AttachRegisters ==
    /\ pc = "registers"
    /\ CS2' = Plan(call.op, call.d, 0).cs
    /\ TCNT2' = FirstLoad(__overflows, _remaining)
    /\ legLoad' = FirstLoad(__overflows, _remaining)
    /\ _remaining' = RemainingAfterLoad(call.op, __overflows, _remaining)
    /\ pc' = "enable"
    /\ UNCHANGED <<_type, _cb, _overflows, __overflows, __remaining,
                   TOIE2, SREG_I, TOV2, call,
                   ncalls, legs, legsAtCb, ticks, ticksAtCb, ignored, pre,
                   armed0, parity, ext>>

\* TIMSK2 |= (1 << TOIE2)
AttachEnable ==
    /\ pc = "enable"
    /\ TOIE2' = TRUE
    /\ pc' = "sei"
    /\ UNCHANGED <<fields, SREG_I, TOV2, TCNT2, CS2, call, obs, ext>>

\* sei(); the set* call returns
AttachSei ==
    /\ pc = "sei"
    /\ SREG_I' = TRUE
    /\ pc' = "idle"
    /\ armed0' = <<_overflows, _remaining, legLoad>>
    /\ UNCHANGED <<fields, TOIE2, TOV2, TCNT2, CS2, call,
                   ncalls, legs, legsAtCb, ticks, ticksAtCb, legLoad, ignored,
                   pre, parity, ext>>

(***************************************************************************)
(* Timer2 and the interrupt context.                                       *)
(***************************************************************************)
\* the counter, once a prescaler is selected, runs and overflows: the
\* overflow flag is raised and the counter starts again from 0
Overflow ==
    /\ CS2 # 0
    /\ TOV2' = TRUE
    /\ TCNT2' = 0
    /\ UNCHANGED <<fields, TOIE2, SREG_I, CS2, pc, call, obs, ext>>

\* mutation: _interrupt without its guard on the mode
IgnoresNothing(t) == FALSE

\* _interrupt: if (_type == UTIMERLIB_TYPE_OFF) return
Ignores(t) == t = UTIMERLIB_TYPE_OFF

\* mutation: the decrement without its guard
CountDownUnguarded(o) == o - 1

\* _interrupt: if (_overflows > 0) _overflows--
CountDown(o) == IF o > 0 THEN o - 1 ELSE o

\* _interrupt: the expiry that loads the remainder leg
LoadsRemainder(o, r) == o = 0 /\ r > 0

\* _interrupt: the expiry that completes the plan
Completes(o, r) == o = 0 /\ r = 0

\* mutation: the completion of a timeout does not call clearTimer()
TypeKeptAfterCompletion(t) == t

\* _type after the completion: clearTimer() for a timeout
TypeAfterCompletion(t) ==
    IF t = UTIMERLIB_TYPE_TIMEOUT THEN UTIMERLIB_TYPE_OFF ELSE t

\* mutation: clearTimer() of the completion leaves the overflow interrupt on
EnableKeptAfterCompletion(t, e) == e

\* TOIE2 after the completion: clearTimer() for a timeout
EnableAfterCompletion(t, e) ==
    IF t = UTIMERLIB_TYPE_TIMEOUT THEN Disabled(e) ELSE e

\* (RearmOverflowsForgotten is the mutation that does not restore _overflows)
\* _overflows, _remaining and the counter after the completion of an
\* interval: with no whole period the remainder is loaded again and
\* _remaining cleared, otherwise both working counters are restored
RearmOverflowsForgotten(t, o, so) == o
RearmOverflows(t, o, so) ==
    IF t = UTIMERLIB_TYPE_INTERVAL /\ so # 0 THEN so ELSE o
RearmRemaining(t, r, so, sr) ==
    IF t = UTIMERLIB_TYPE_INTERVAL THEN (IF so = 0 THEN 0 ELSE sr) ELSE r
RearmLoads(t, so) == t = UTIMERLIB_TYPE_INTERVAL /\ so = 0

Bump(n) == IF n < MaxCalls THEN n + 1 ELSE n

\* ISR(TIMER2_OVF_vect): the pending overflow is taken when the overflow
\* interrupt and the global interrupt flag are enabled; the handler runs
\* with interrupts disabled and reti enables them again
Interrupt ==
    /\ TOV2 /\ TOIE2 /\ SREG_I
    /\ TOV2' = FALSE
    /\ UNCHANGED <<SREG_I, CS2, pc, call, pre, armed0, __overflows,
                   __remaining, _cb, ext>>
    /\ IF Ignores(_type)
       THEN /\ ignored' = TRUE
            /\ UNCHANGED <<_type, _overflows, _remaining, TOIE2, TCNT2,
                           ncalls, legs, legsAtCb, ticks, ticksAtCb, legLoad,
                           parity>>
       ELSE LET o == CountDown(_overflows)
                n == legs + 1
                k == ticks + (CounterRange - legLoad)
            IN  /\ UNCHANGED ignored
                /\ IF LoadsRemainder(o, _remaining)
                   THEN /\ _overflows' = o
                        /\ TCNT2' = _remaining
                        /\ legLoad' = _remaining
                        /\ _remaining' = 0
                        /\ legs' = n /\ ticks' = k
                        /\ UNCHANGED <<_type, TOIE2, ncalls, legsAtCb,
                                       ticksAtCb, parity>>
                   ELSE IF Completes(o, _remaining)
                   THEN /\ _type' = TypeAfterCompletion(_type)
                        /\ TOIE2' = EnableAfterCompletion(_type, TOIE2)
                        /\ _overflows' = RearmOverflows(_type, o, __overflows)
                        /\ _remaining' = RearmRemaining(_type, _remaining,
                                                        __overflows, __remaining)
                        /\ IF RearmLoads(_type, __overflows)
                           THEN TCNT2' = __remaining /\ legLoad' = __remaining
                           ELSE UNCHANGED TCNT2 /\ legLoad' = 0
                        /\ ncalls' = [ncalls EXCEPT ![_cb] = Bump(@)]
                        /\ legsAtCb' = n /\ ticksAtCb' = k
                        /\ legs' = 0 /\ ticks' = 0
                        /\ parity' = ~parity
                   ELSE /\ _overflows' = o
                        /\ legLoad' = 0
                        /\ legs' = n /\ ticks' = k
                        /\ UNCHANGED <<_type, _remaining, TOIE2, TCNT2,
                                       ncalls, legsAtCb, ticksAtCb, parity>>

Next ==
    \/ clearTimer
    \/ setInterval_us
    \/ setTimeout_us
    \/ setInterval_s
    \/ setTimeout_s
    \/ ClearTimsk
    \/ ClearSreg
    \/ SetCb
    \/ SetType
    \/ AttachGuard
    \/ AttachPlan
    \/ AttachRegisters
    \/ AttachEnable
    \/ AttachSei
    \/ Overflow
    \/ Interrupt

Spec == Init /\ [][Next]_vars

\* the hardware keeps running and a deliverable interrupt is delivered
FairSpec == Spec /\ WF_vars(Overflow) /\ WF_vars(Interrupt)

(***************************************************************************)
(* Callbacks that call back into the library. _interrupt calls _cb() at    *)
(* the end of the completion; the callback runs in the interrupt context,  *)
(* with the global interrupt flag cleared by the hardware, and may make    *)
(* no call, call clearTimer(), or make a set* call. The normal context is  *)
(* preempted while an activation of the handler is on the stack. A set*    *)
(* call with a positive duration ends with sei(), so the handler can be    *)
(* entered again before the first activation has returned.                 *)
(***************************************************************************)
\* most activations of the handler nested in one another
MaxNesting == 2

\* the name under which a call made by the callback is recorded
InCallback(op) == "callback:" \o op

\* an activation of _interrupt that has reached _cb(): the mode it found,
\* whether the callback is still to run or has returned, and what it did
Activation(t) == [type |-> t, at |-> "cb", did |-> "none"]
InHandler == isr # <<>>
Top == isr[Len(isr)]
Finish(what) == [isr EXCEPT ![Len(isr)] = [@ EXCEPT !.at = "ret", !.did = what]]

\* ISR(TIMER2_OVF_vect) up to the call of _cb(): an expiry that does not
\* complete the plan runs the whole handler; the completion does its
\* clearTimer() or its re-arm and then calls the callback
Expire ==
    /\ TOV2 /\ TOIE2 /\ SREG_I
    /\ Len(isr) < MaxNesting
    /\ IF ~Ignores(_type) /\ Completes(CountDown(_overflows), _remaining)
       THEN /\ TOV2' = FALSE
            /\ SREG_I' = FALSE
            /\ _type' = TypeAfterCompletion(_type)
            /\ TOIE2' = EnableAfterCompletion(_type, TOIE2)
            /\ _overflows' = RearmOverflows(_type, CountDown(_overflows),
                                            __overflows)
            /\ _remaining' = RearmRemaining(_type, _remaining,
                                            __overflows, __remaining)
            /\ IF RearmLoads(_type, __overflows)
               THEN TCNT2' = __remaining /\ legLoad' = __remaining
               ELSE UNCHANGED TCNT2 /\ legLoad' = 0
            /\ ncalls' = [ncalls EXCEPT ![_cb] = Bump(@)]
            /\ legsAtCb' = legs + 1
            /\ ticksAtCb' = ticks + (CounterRange - legLoad)
            /\ legs' = 0 /\ ticks' = 0
            /\ parity' = ~parity
            /\ isr' = Append(isr, Activation(_type))
            /\ UNCHANGED <<_cb, __overflows, __remaining, CS2, pc, call,
                           ignored, pre, armed0, Timer3, _toInit>>
       ELSE Interrupt

\* the callback returns without calling the library
CallbackReturns ==
    /\ InHandler /\ Top.at = "cb"
    /\ isr' = Finish("nothing")
    /\ UNCHANGED <<fields, hw, pc, call, obs, Timer3, _toInit>>

\* the callback calls clearTimer()
CallbackClears ==
    /\ InHandler /\ Top.at = "cb"
    /\ _type' = ClearedType
    /\ TOIE2' = Disabled(TOIE2)
    /\ SREG_I' = Disabled(SREG_I)
    /\ call' = [op |-> InCallback("clearTimer"), cb |-> NULL, d |-> 0]
    /\ pre' = [type |-> _type, cb |-> _cb, fresh |-> FALSE, plan |-> <<>>]
    /\ ncalls' = NoCalls
    /\ legs' = 0 /\ legsAtCb' = 0 /\ ticks' = 0 /\ ticksAtCb' = 0
    /\ ignored' = FALSE /\ parity' = FALSE
    /\ isr' = Finish("clearTimer")
    /\ UNCHANGED <<_cb, _overflows, _remaining, __overflows, __remaining,
                   TOV2, TCNT2, CS2, pc, legLoad, armed0, Timer3, _toInit>>

\* the callback makes a set* call: clearTimer(), the callback and the mode,
\* then the zero guard or cli(), the plan, the registers and sei()
CallbackSets ==
    /\ InHandler /\ Top.at = "cb"
    /\ \E op \in SetOps, cb \in Callbacks :
       \E d \in Durations(op) :
          LET p == Plan(op, d, _overflows)
              load == FirstLoad(p.overflows, p.remaining)
              rem == RemainingAfterLoad(op, p.overflows, p.remaining)
          IN  /\ _cb' = StoredCb(cb)
              /\ _type' = TypeOf(op)
              /\ call' = [op |-> InCallback(op), cb |-> cb, d |-> d]
              /\ IF d = 0
                 THEN /\ TOIE2' = Disabled(TOIE2)
                      /\ SREG_I' = Disabled(SREG_I)
                      /\ UNCHANGED <<_overflows, _remaining, __overflows,
                                     __remaining, TCNT2, CS2, legLoad,
                                     armed0>>
                 ELSE /\ _overflows' = p.overflows
                      /\ __overflows' = p.overflows
                      /\ __remaining' = p.remaining
                      /\ _remaining' = rem
                      /\ CS2' = p.cs
                      /\ TCNT2' = load
                      /\ legLoad' = load
                      /\ TOIE2' = TRUE
                      /\ SREG_I' = TRUE
                      /\ armed0' = <<p.overflows, rem, load>>
    /\ pre' = [type |-> _type, cb |-> _cb, fresh |-> FALSE, plan |-> <<>>]
    /\ ncalls' = NoCalls
    /\ legs' = 0 /\ legsAtCb' = 0 /\ ticks' = 0 /\ ticksAtCb' = 0
    /\ ignored' = FALSE /\ parity' = FALSE
    /\ isr' = Finish("set")
    /\ UNCHANGED <<TOV2, pc, Timer3, _toInit>>

\* _interrupt returns and reti sets the global interrupt flag
Reti ==
    /\ InHandler /\ Top.at = "ret"
    /\ isr' = SubSeq(isr, 1, Len(isr) - 1)
    /\ SREG_I' = TRUE
    /\ UNCHANGED <<fields, TOIE2, TOV2, TCNT2, CS2, pc, call, obs, Timer3,
                   _toInit>>

\* the normal context runs only outside the handler
NextReentrant ==
    \/ ~InHandler /\ clearTimer
    \/ ~InHandler /\ setInterval_us
    \/ ~InHandler /\ setTimeout_us
    \/ ~InHandler /\ setInterval_s
    \/ ~InHandler /\ setTimeout_s
    \/ ~InHandler /\ ClearTimsk
    \/ ~InHandler /\ ClearSreg
    \/ ~InHandler /\ SetCb
    \/ ~InHandler /\ SetType
    \/ ~InHandler /\ AttachGuard
    \/ ~InHandler /\ AttachPlan
    \/ ~InHandler /\ AttachRegisters
    \/ ~InHandler /\ AttachEnable
    \/ ~InHandler /\ AttachSei
    \/ Overflow
    \/ Expire
    \/ CallbackReturns
    \/ CallbackClears
    \/ CallbackSets
    \/ Reti

ReentrantSpec == Init /\ [][NextReentrant]_vars

(***************************************************************************)
(* The STM32 build (_VARIANT_ARDUINO_STM32_). The constructor calls        *)
(* clearTimer(); clearTimer() pauses Timer3 after writing the mode; the    *)
(* attach functions program Timer3 without masking interrupts; _interrupt  *)
(* calls the callback on every expiry it does not ignore. The entry        *)
(* points and the writes of _cb and _type are those of the AVR build; the  *)
(* position "clear_timsk" is the one after clearTimer's first statement.   *)
(* The initial value of _toInit is set outside this source file.           *)
(***************************************************************************)
\* the hardware period of the seconds entry points, in microseconds
Stm32SecondsPeriod == 1000000

Stm32Init ==
    /\ _type = UTIMERLIB_TYPE_OFF
    /\ _cb = NULL
    /\ _overflows = 0 /\ _remaining = 0
    /\ __overflows = 0 /\ __remaining = 0
    /\ TOIE2 = FALSE /\ SREG_I = TRUE /\ TOV2 = FALSE
    /\ TCNT2 = 0 /\ CS2 = 0
    /\ pc = "idle" /\ call = NoCall
    /\ ncalls = NoCalls
    /\ legs = 0 /\ legsAtCb = 0 /\ ticks = 0 /\ ticksAtCb = 0
    /\ legLoad = 0 /\ ignored = FALSE
    /\ pre = [type |-> UTIMERLIB_TYPE_OFF, cb |-> NULL, fresh |-> TRUE,
              plan |-> <<>>]
    /\ armed0 = <<0, 0, 0>>
    /\ parity = FALSE
    /\ isr = <<>>
    /\ Timer3 = [running |-> FALSE, attached |-> FALSE, period |-> 0]
    /\ _toInit \in BOOLEAN

\* Timer3.pause(); clearTimer returns
Timer3Pause ==
    /\ pc = "clear_timsk"
    /\ Timer3' = [Timer3 EXCEPT !.running = FALSE]
    /\ pc' = IF call.op = "clearTimer" THEN "idle" ELSE "set_cb"
    /\ UNCHANGED <<fields, hw, call, obs, isr, _toInit>>

\* _attachInterrupt_us / _attachInterrupt_s: the zero guard
Stm32Guard ==
    /\ pc = "attach"
    /\ \E d \in Durations(call.op) :
          /\ call' = [call EXCEPT !.d = d]
          /\ IF d = 0
             THEN pc' = "idle" /\ UNCHANGED pre
             ELSE pc' = "plan" /\ pre' = [pre EXCEPT !.plan = <<>>]
    /\ UNCHANGED <<fields, hw, ncalls, legs, legsAtCb, ticks, ticksAtCb,
                   legLoad, ignored, armed0, parity, ext>>

\* the counters of the STM32 build: none for microseconds, where the
\* hardware period is the request; s periods of one second for seconds
Stm32Overflows(op, d) == IF IsSeconds(op) THEN d ELSE 0
Stm32Period(op, d) == IF IsSeconds(op) THEN Stm32SecondsPeriod ELSE d

\* Timer3.setMode, setPeriod and setCompare, and the counters
Stm32Program ==
    /\ pc = "plan"
    /\ _overflows' = Stm32Overflows(call.op, call.d)
    /\ __overflows' = Stm32Overflows(call.op, call.d)
    /\ _remaining' = 0 /\ __remaining' = 0
    /\ Timer3' = [Timer3 EXCEPT !.period = Stm32Period(call.op, call.d)]
    /\ pc' = "registers"
    /\ UNCHANGED <<_type, _cb, hw, call, obs, isr, _toInit>>

\* if (_toInit) { _toInit = false; Timer3.attachInterrupt(...) }
Stm32Attach ==
    /\ pc = "registers"
    /\ _toInit' = FALSE
    /\ Timer3' = [Timer3 EXCEPT !.attached = @ \/ _toInit]
    /\ pc' = "enable"
    /\ UNCHANGED <<fields, hw, call, obs, isr>>

\* Timer3.refresh(); Timer3.resume(); the set* call returns
Stm32Resume ==
    /\ pc = "enable"
    /\ Timer3' = [Timer3 EXCEPT !.running = TRUE]
    /\ pc' = "idle"
    /\ armed0' = <<_overflows, _remaining, 0>>
    /\ UNCHANGED <<fields, hw, call, ncalls, legs, legsAtCb, ticks,
                   ticksAtCb, legLoad, ignored, pre, parity, isr, _toInit>>

\* uTimerLib::interrupt -> _interrupt, STM32 branch: an expiry of the
\* running timer reaches the attached handler, which returns when the mode
\* is Off and calls _cb() otherwise
Stm32Expire ==
    /\ Timer3.running /\ Timer3.attached
    /\ IF Ignores(_type)
       THEN /\ ignored' = TRUE
            /\ UNCHANGED <<ncalls, legs, legsAtCb, parity>>
       ELSE /\ ncalls' = [ncalls EXCEPT ![_cb] = Bump(@)]
            /\ legsAtCb' = legs + 1
            /\ legs' = 0
            /\ parity' = ~parity
            /\ UNCHANGED ignored
    /\ UNCHANGED <<fields, hw, pc, call, ticks, ticksAtCb, legLoad, pre,
                   armed0, ext>>

Stm32Next ==
    \/ clearTimer
    \/ setInterval_us
    \/ setTimeout_us
    \/ setInterval_s
    \/ setTimeout_s
    \/ Timer3Pause
    \/ SetCb
    \/ SetType
    \/ Stm32Guard
    \/ Stm32Program
    \/ Stm32Attach
    \/ Stm32Resume
    \/ Stm32Expire

Stm32Spec == Stm32Init /\ [][Stm32Next]_vars

(***************************************************************************)
(* The plan over the whole range of the counters: set* calls taken as one  *)
(* step each (the calls of the AVR build from clearTimer() to sei(), which *)
(* no expiry interleaves with once the overflow interrupt is disabled),    *)
(* with requests up to the largest counts a 32 bit product or a 32 bit     *)
(* request can give, and a bounded number of expiries between two calls.   *)
(***************************************************************************)
\* most expiries counted down between two calls
MaxPlanExpiries == 2

\* the largest number of whole periods in a 32 bit number of microseconds
LargestPeriods == Limb * (Limb \div OverflowUs) - 1

\* microsecond requests up to the largest the model's integers hold
PlanDurationsUs == {300, OverflowUs + 3616,
                    (Limb \div 2 - 1) * Limb + (Limb - 1)}
\* seconds requests: 4294 is the last whose product does not wrap, 4295
\* the first that does, and 261993 wraps to the largest number of whole
\* periods
PlanDurationsS == {1, 4294, 4295, 261993}
PlanDurations(op) == IF IsSeconds(op) THEN PlanDurationsS ELSE PlanDurationsUs

\* a set* call with a positive duration, from clearTimer() to sei()
PlanCall ==
    /\ pc = "idle"
    /\ \E op \in SetOps, cb \in Callbacks :
       \E d \in PlanDurations(op) :
          LET p == Plan(op, d, _overflows)
              load == FirstLoad(p.overflows, p.remaining)
              rem == RemainingAfterLoad(op, p.overflows, p.remaining)
          IN  /\ _cb' = StoredCb(cb)
              /\ _type' = TypeOf(op)
              /\ call' = [op |-> op, cb |-> cb, d |-> d]
              /\ _overflows' = p.overflows
              /\ __overflows' = p.overflows
              /\ __remaining' = p.remaining
              /\ _remaining' = rem
              /\ CS2' = p.cs
              /\ TCNT2' = load
              /\ legLoad' = load
              /\ armed0' = <<p.overflows, rem, load>>
    /\ TOIE2' = TRUE
    /\ SREG_I' = TRUE
    /\ pre' = [type |-> _type, cb |-> _cb, fresh |-> FALSE,
               plan |-> PlanSnapshot]
    /\ ncalls' = NoCalls
    /\ legs' = 0 /\ legsAtCb' = 0 /\ ticks' = 0 /\ ticksAtCb' = 0
    /\ ignored' = FALSE /\ parity' = FALSE
    /\ UNCHANGED <<TOV2, pc, ext>>

PlanNext ==
    \/ PlanCall
    \/ Overflow
    \/ legs < MaxPlanExpiries /\ Interrupt

PlanSpec == Init /\ [][PlanNext]_vars

(***************************************************************************)
(* Vocabulary of the properties.                                           *)
(***************************************************************************)
Returned == pc = "idle"
TimeoutOps == {"setTimeout_us", "setTimeout_s"}
IntervalOps == {"setInterval_us", "setInterval_s"}
\* the last call was this kind of set* with a positive duration and has
\* returned; no other call has been made since
TimeoutRunning == Returned /\ call.op \in TimeoutOps /\ call.d > 0
IntervalRunning == Returned /\ call.op \in IntervalOps /\ call.d > 0
\* the next overflow of the counter reaches _interrupt
Armed == TOIE2 /\ SREG_I /\ CS2 # 0
Deliverable == TOV2 /\ TOIE2 /\ SREG_I
OthersNeverInvoked == \A c \in (Callbacks \cup {NULL}) \ {call.cb} : ncalls[c] = 0
\* expiries and ticks of one run of the saved plan
RemainderTicks == IF __remaining = 0 /\ __overflows > 0 THEN 0
                  ELSE CounterRange - __remaining
ExpectedLegs == IF __overflows = 0 THEN 1
                ELSE IF __remaining = 0 THEN __overflows
                ELSE __overflows + 1
ExpectedTicks == __overflows * CounterRange + RemainderTicks
Abs(x) == IF x < 0 THEN 0 - x ELSE x

(***************************************************************************)
(* C1: after setTimeout_us / setTimeout_s with a positive duration and no  *)
(* later call, the callback is invoked at most once, and only by the       *)
(* expiry that exhausts the working counters; until then the timer stays   *)
(* armed in mode Timeout, afterwards the mode is Off, the overflow         *)
(* interrupt is disabled and nothing more is invoked; and under fair       *)
(* hardware the invocation does come.                                      *)
(***************************************************************************)
C1_AtMostOnce ==
    TimeoutRunning =>
        /\ OthersNeverInvoked
        /\ ncalls[call.cb] <= 1
        /\ ncalls[call.cb] = 0 =>
              _type = UTIMERLIB_TYPE_TIMEOUT /\ Armed /\ _cb = call.cb
        /\ ncalls[call.cb] = 1 =>
              /\ _type = UTIMERLIB_TYPE_OFF /\ ~TOIE2
              /\ _overflows = 0 /\ _remaining = 0
              /\ legs = 0

C1_TimeoutFiresOnce ==
    /\ []C1_AtMostOnce
    /\ (TimeoutRunning /\ ncalls[call.cb] = 0)
           ~> (~TimeoutRunning \/ ncalls[call.cb] = 1)

\* a timeout of several legs has fired and the counter has overflowed again
C1_Witness ==
    /\ TimeoutRunning /\ ncalls[call.cb] = 1 /\ legsAtCb > 1
    /\ _type = UTIMERLIB_TYPE_OFF /\ TOV2

(***************************************************************************)
(* C2: after setInterval_us / setInterval_s with a positive duration and   *)
(* no later call, the timer stays armed in mode Interval, only that        *)
(* callback is invoked, between two consecutive invocations exactly one    *)
(* run of the saved plan is consumed (its expiries and its ticks), and     *)
(* under fair hardware there is always a next invocation.                  *)
(***************************************************************************)
C2_Periodic ==
    IntervalRunning =>
        /\ _type = UTIMERLIB_TYPE_INTERVAL /\ Armed /\ _cb = call.cb
        /\ OthersNeverInvoked
        /\ ncalls[call.cb] >= 1 => legs < ExpectedLegs
        /\ ncalls[call.cb] >= 2 =>
              legsAtCb = ExpectedLegs /\ ticksAtCb = ExpectedTicks

C2_IntervalRepeats ==
    /\ []C2_Periodic
    /\ \A b \in BOOLEAN :
          (IntervalRunning /\ parity = b) ~> (~IntervalRunning \/ parity # b)

\* a repeated invocation of an interval whose plan has whole periods and a
\* remainder
C2_Witness ==
    /\ IntervalRunning /\ ncalls[call.cb] = MaxCalls
    /\ __overflows > 0 /\ __remaining > 0 /\ legsAtCb = __overflows + 1

(***************************************************************************)
(* C3: once clearTimer has written the mode, no callback is invoked,       *)
(* whatever expiries follow; in particular when it cancels a timer that    *)
(* has not yet seen an expiry.                                             *)
(***************************************************************************)
C3_ClearedNeverFires ==
    call.op = "clearTimer" => \A c \in Callbacks \cup {NULL} : ncalls[c] = 0

\* clearTimer cancelled a running timer before its first expiry; an expiry
\* delivered after that was ignored, and the counter overflowed once more
C3_Witness ==
    /\ call.op = "clearTimer" /\ Returned
    /\ pre.type # UTIMERLIB_TYPE_OFF /\ pre.fresh
    /\ ignored /\ TOV2

(***************************************************************************)
(* C4: a set* call with duration 0 returns with mode, callback, working    *)
(* and saved counters and the overflow interrupt enable as it found them.  *)
(***************************************************************************)
C4_ZeroDurationIsNoOp ==
    (Returned /\ call.op \in SetOps /\ call.d = 0) =>
        /\ _type = pre.type /\ _cb = pre.cb
        /\ PlanSnapshot = pre.plan

(***************************************************************************)
(* C5: once a set* call with a positive duration has cancelled the         *)
(* previous timer, no callback but its own is ever invoked, and when it    *)
(* returns the counters hold its own plan, computed from the duration      *)
(* alone, whatever the previous timer left.                                *)
(***************************************************************************)
C5_OnlyTheNewTimer ==
    call.op \in SetOps =>
        /\ OthersNeverInvoked
        /\ (Returned /\ call.d > 0 /\ legs = 0 /\ ncalls = NoCalls) =>
              LET p == Plan(call.op, call.d, 0)
              IN  /\ __overflows = p.overflows /\ __remaining = p.remaining
                  /\ _overflows = p.overflows
                  /\ _remaining \in {0, p.remaining}
                  /\ legLoad = FirstLoad(p.overflows, p.remaining)
                  /\ _type = TypeOf(call.op) /\ _cb = call.cb

\* the new callback has been invoked after its call replaced a timer of
\* the other callback that was in the middle of its count
C5_Witness ==
    /\ call.op \in SetOps /\ call.d > 0 /\ Returned
    /\ pre.type # UTIMERLIB_TYPE_OFF /\ pre.cb \in Callbacks \ {call.cb}
    /\ ~pre.fresh
    /\ ncalls[call.cb] >= 1

(***************************************************************************)
(* C6: for a microsecond request of at least one whole period (16384 us),  *)
(* the saved plan has a remainder of less than 256 ticks and amounts to    *)
(* the request within one tick of 64 us, and so do the ticks counted by    *)
(* the chain of expiries up to the callback.                               *)
(***************************************************************************)
C6_PlanWithinOneTick ==
    (Returned /\ call.op \in {"setInterval_us", "setTimeout_us"}
        /\ call.d >= OverflowUs) =>
        /\ RemainderTicks < CounterRange
        /\ Abs(ExpectedTicks * TickUs - call.d) <= TickUs
        /\ ncalls[call.cb] >= 1 =>
              Abs(ticksAtCb * TickUs - call.d) <= TickUs

(***************************************************************************)
(* C7: in Interval mode the state right after the re-arm that follows a    *)
(* callback (working counters and the value the counter was loaded with)   *)
(* is the state right after the arm of the set* call, and the period just  *)
(* ended took as many expiries as the saved plan has.                      *)
(***************************************************************************)
C7_RearmEqualsFirstArm ==
    (IntervalRunning /\ ncalls[call.cb] >= 1 /\ legs = 0) =>
        /\ <<_overflows, _remaining, legLoad>> = armed0
        /\ legsAtCb = ExpectedLegs

(***************************************************************************)
(* C8: an expiry delivered while the mode is Off changes nothing: mode,    *)
(* callback, working and saved counters, the Timer2 programming and the    *)
(* count of invocations stay as they are.                                  *)
(***************************************************************************)
C8_OffExpiryIgnored ==
    [][(TOV2 /\ ~TOV2' /\ _type = UTIMERLIB_TYPE_OFF) =>
            UNCHANGED <<fields, TOIE2, SREG_I, TCNT2, CS2, ncalls, legs,
                        legsAtCb>>]_vars

\* an expiry was delivered between clearTimer's write of the mode and its
\* disabling of the overflow interrupt, while a plan was under way
C8_Witness ==
    /\ ignored /\ _type = UTIMERLIB_TYPE_OFF
    /\ pre.type # UTIMERLIB_TYPE_OFF /\ _overflows > 0

(***************************************************************************)
(* C9: while a set* call is between the write of the new callback and its  *)
(* return, no expiry can be delivered (the overflow interrupt or the       *)
(* global interrupt flag is off), so _interrupt never runs on a mode and   *)
(* callback that do not belong to the counters; nothing has been counted   *)
(* or invoked for the new timer when the call returns. The same holds     *)
(* after a request of duration 0, which returns with the new mode over    *)
(* the old counters.                                                       *)
(***************************************************************************)
Installing == pc \in {"set_type", "attach", "plan", "registers", "enable",
                      "sei"}

C9_NoPartialStateObserved ==
    /\ Installing => ~Deliverable /\ legs = 0 /\ ncalls = NoCalls
    /\ (Returned /\ call.op \in SetOps /\ call.d = 0) => ~Deliverable

\* the new mode is written over the counters of the previous plan while an
\* overflow of the previous timer is pending
C9_Witness ==
    /\ pc = "attach" /\ TOV2
    /\ pre.type # UTIMERLIB_TYPE_OFF /\ _overflows > 0
    /\ _type # UTIMERLIB_TYPE_OFF /\ _cb # pre.cb

(***************************************************************************)
(* C10, as stated: between calls the callback is set exactly when the      *)
(* mode is not Off.                                                        *)
(***************************************************************************)
C10_CallbackIffActive ==
    Returned => ((_cb # NULL) <=> (_type # UTIMERLIB_TYPE_OFF))

(***************************************************************************)
(* C10, amended: in every state a mode other than Off has a callback;      *)
(* clearTimer and the completion of a timeout set the mode to Off and      *)
(* leave the stored callback as it was.                                    *)
(***************************************************************************)
C10_ActiveHasCallback ==
    /\ _type # UTIMERLIB_TYPE_OFF => _cb \in Callbacks
    /\ (Returned /\ call.op = "clearTimer") =>
          _type = UTIMERLIB_TYPE_OFF /\ _cb = pre.cb
    /\ (TimeoutRunning /\ ncalls[call.cb] = 1) =>
          _type = UTIMERLIB_TYPE_OFF /\ _cb = call.cb

\* clearTimer has returned from cancelling a timer: the mode is Off and the
\* callback is still stored
C10_Witness ==
    /\ Returned /\ call.op = "clearTimer"
    /\ pre.type # UTIMERLIB_TYPE_OFF
    /\ _type = UTIMERLIB_TYPE_OFF /\ _cb \in Callbacks

(***************************************************************************)
(* C11, as stated: on the completion expiry of a Timeout the mode is still *)
(* Timeout while the callback executes, and it is Off once the callback    *)
(* has returned and _interrupt is about to return (a timer the callback    *)
(* started is cancelled).                                                  *)
(***************************************************************************)
TimeoutCallbackRunning ==
    InHandler /\ Top.type = UTIMERLIB_TYPE_TIMEOUT /\ Top.at = "cb"
TimeoutCallbackReturned ==
    InHandler /\ Top.type = UTIMERLIB_TYPE_TIMEOUT /\ Top.at = "ret"

C11_CallbackThenClear ==
    /\ TimeoutCallbackRunning => _type = UTIMERLIB_TYPE_TIMEOUT
    /\ TimeoutCallbackReturned => _type = UTIMERLIB_TYPE_OFF

(***************************************************************************)
(* C11, amended: on the completion expiry of a Timeout clearTimer() runs   *)
(* first and the callback after it: when the callback starts executing the *)
(* mode is Off and the overflow interrupt is disabled; _interrupt writes   *)
(* nothing after the callback has returned, so when it returns the mode is *)
(* Off if the callback made no set* call, and a timer the callback started *)
(* is left as the callback started it.                                     *)
(***************************************************************************)
C11_ClearThenCallback ==
    /\ [](TimeoutCallbackRunning =>
             _type = UTIMERLIB_TYPE_OFF /\ ~TOIE2 /\ ~SREG_I)
    /\ []((TimeoutCallbackReturned /\ Top.did # "set") =>
             _type = UTIMERLIB_TYPE_OFF /\ ~TOIE2)
    /\ [][Len(isr') < Len(isr) =>
             UNCHANGED <<fields, TOIE2, TOV2, TCNT2, CS2>>]_vars

\* a timeout started by the callback of a timeout has outlived the return
\* of _interrupt and has fired in its turn
C11_Witness ==
    /\ ~InHandler
    /\ call.op = InCallback("setTimeout_us") /\ call.d > 0
    /\ pre.type = UTIMERLIB_TYPE_OFF
    /\ ncalls[call.cb] = 1

(***************************************************************************)
(* C12: after a set* call with a positive duration, for the saved plan of  *)
(* N whole periods and remainder r, the callback is invoked by the expiry  *)
(* number 1 (N = 0), N (N > 0, r = 0) or N + 1 (N > 0, r > 0) counted from *)
(* the arming or from the previous callback, and by no expiry before it.   *)
(***************************************************************************)
C12_OnlyFinalExpiryInvokes ==
    (Returned /\ call.op \in SetOps /\ call.d > 0) =>
        /\ legs < ExpectedLegs
        /\ ncalls[call.cb] >= 1 => legsAtCb = ExpectedLegs

(***************************************************************************)
(* C13: for a microsecond request the remainder leg of the saved plan      *)
(* counts floor(x + 1/2) ticks, x being the exact remainder in ticks of    *)
(* the selected prescaler ((us mod 16384) / 64 from one whole period on),  *)
(* so that a remainder that rounds to a tick or more is not dropped.       *)
(***************************************************************************)
\* floor(n / tick + 1/2)
NearestTick(n, tick) == (2 * n + tick) \div (2 * tick)
\* the remainder of the request in ticks, to the nearest tick
NearestTicks(us) ==
    IF us >= OverflowUs THEN NearestTick(us % OverflowUs, TickUs)
    ELSE IF us >= 4096 THEN NearestTick(us, 64)
    ELSE IF us >= 2048 THEN NearestTick(us, 16)
    ELSE IF us >= 1024 THEN NearestTick(us, 8)
    ELSE IF us >= 512 THEN NearestTick(us, 4)
    ELSE IF us >= 128 THEN NearestTick(us, 2)
    ELSE IF us >= 16 THEN us * 2
    ELSE us * 16

C13_RemainderRoundedToNearest ==
    (Returned /\ call.op \in {"setInterval_us", "setTimeout_us"}
        /\ call.d > 0) =>
        RemainderTicks = NearestTicks(call.d)

(***************************************************************************)
(* C14: after a seconds request s > 0 whose true number of whole periods,  *)
(* floor(s * 1000000 / 16384), fits in 32 bits, the saved and the working  *)
(* count of whole periods are that number.                                 *)
(***************************************************************************)
\* floor(s * 1000000 / 16384) = floor(s * 15625 / 256), without wrapping,
\* as 16 bit limbs <<high, low>>; high is beyond one limb when the number
\* does not fit in 32 bits
ExactPeriods(s) ==
    LET m == MicrosPerSecond \div TickUs
        q == OverflowUs \div TickUs
        p0 == (s % Limb) * m
        p1 == (s \div Limb) * m + p0 \div Limb
    IN  <<p1 \div q, (p1 % q) * (Limb \div q) + (p0 % Limb) \div q>>
AsLimbs(v) == <<v \div Limb, v % Limb>>

C14_SecondsPeriodsExact ==
    (Returned /\ IsSeconds(call.op) /\ call.d > 0
        /\ ExactPeriods(call.d)[1] < Limb
        /\ legs = 0 /\ ncalls = NoCalls) =>
        /\ AsLimbs(__overflows) = ExactPeriods(call.d)
        /\ AsLimbs(_overflows) = ExactPeriods(call.d)

(***************************************************************************)
(* C15: the STM32 branch of _interrupt behaves as the generic one: after a *)
(* timeout request with a positive duration the callback is invoked at     *)
(* most once and the mode is Off from then on; after a seconds request of  *)
(* s seconds (hardware period of one second, __overflows = s) the callback *)
(* is invoked by the expiry number s counted from the arming or from the   *)
(* previous callback, and not by the s - 1 expiries before it.             *)
(***************************************************************************)
C15_Stm32AsGeneric ==
    /\ TimeoutRunning =>
          /\ ncalls[call.cb] <= 1
          /\ ncalls[call.cb] = 1 => _type = UTIMERLIB_TYPE_OFF
    /\ (Returned /\ IsSeconds(call.op) /\ call.d > 0
          /\ ncalls[call.cb] >= 1) =>
          /\ Timer3.period = Stm32SecondsPeriod /\ __overflows = call.d
          /\ legsAtCb = call.d

(***************************************************************************)
(* C16: the plan a set* call with a positive duration installs is the one  *)
(* the same call installs on a freshly constructed object (_overflows = 0  *)
(* before the call), whatever the earlier timers left in the counters: the *)
(* saved plan always, and the working counters until the first expiry.     *)
(* The count of whole periods never exceeds the threshold above which the  *)
(* seconds entry would divide first.                                       *)
(***************************************************************************)
C16_PlanFromDurationOnly ==
    /\ _overflows <= LargestPeriods /\ LargestPeriods <= DivideFirstAbove
    /\ call.op \in SetOps =>
          LET p == Plan(call.op, call.d, 0)
          IN  /\ __overflows = p.overflows /\ __remaining = p.remaining
              /\ (legs = 0 /\ ncalls = NoCalls) =>
                    /\ _overflows = p.overflows
                    /\ _remaining =
                          RemainingAfterLoad(call.op, p.overflows, p.remaining)

\* a seconds request made when the earlier timer had left the largest count
\* of whole periods in _overflows, and one made when it had left none
C16_Witness ==
    /\ IsSeconds(call.op) /\ legs = 0 /\ ncalls = NoCalls
    /\ pre.plan # <<>> /\ pre.plan[1] = LargestPeriods
    /\ __overflows > 0

(***************************************************************************)
(* C17: the working counters stay within the saved plan: _overflows is     *)
(* never below 0 nor above __overflows, and _remaining is 0 or             *)
(* __remaining; and the saved plan is written only by the plan of a set*   *)
(* call with a positive duration, never by _interrupt or clearTimer.       *)
(***************************************************************************)
C17_WithinSavedPlan ==
    /\ 0 <= _overflows /\ _overflows <= __overflows
    /\ _remaining \in {0, __remaining}

C17_CountersWithinPlan ==
    /\ []C17_WithinSavedPlan
    /\ [][<<__overflows, __remaining>>' # <<__overflows, __remaining>> =>
             pc = "plan" /\ pc' = "registers" /\ call.op \in SetOps
                /\ call.d > 0]_vars

\* clearTimer has returned from cancelling a timer part of whose whole
\* periods expiries had counted down: the saved plan is as it was installed
C17_Witness ==
    /\ call.op = "clearTimer" /\ Returned
    /\ 0 < _overflows /\ _overflows < __overflows
    /\ _remaining = __remaining /\ __remaining > 0
    /\ ~pre.fresh

(***************************************************************************)
(* C18: whenever no call is in progress (the handler is one step and is    *)
(* never in progress in a state), the mode is other than Off exactly when  *)
(* the overflow interrupt of Timer2, the expiry source, is enabled.        *)
(***************************************************************************)
C18_ModeIffArmed ==
    Returned => ((_type # UTIMERLIB_TYPE_OFF) <=> TOIE2)

(***************************************************************************)
(* C19: once the callback of an interval has called clearTimer() during    *)
(* the completion, the mode is Off and the overflow interrupt is disabled, *)
(* in the handler and after it has returned, although the completion had  *)
(* restored the working counters before calling the callback; and no       *)
(* callback is invoked by the expiries that follow.                        *)
(***************************************************************************)
ClearedByIntervalCallback ==
    /\ call.op = InCallback("clearTimer")
    /\ pre.type = UTIMERLIB_TYPE_INTERVAL

C19_ClearInCallbackStops ==
    ClearedByIntervalCallback =>
        /\ _type = UTIMERLIB_TYPE_OFF /\ ~TOIE2
        /\ ncalls = NoCalls /\ legs = 0
        /\ <<_overflows, _remaining>> =
              <<RearmOverflows(pre.type, 0, __overflows),
                RearmRemaining(pre.type, 0, __overflows, __remaining)>>

\* the handler has returned, the counters are those of the re-arm, and the
\* counter has overflowed again with interrupts enabled
C19_Witness ==
    /\ ClearedByIntervalCallback /\ ~InHandler
    /\ _overflows > 0 /\ _overflows = __overflows
    /\ TOV2 /\ SREG_I

(***************************************************************************)
(* C20: a clearTimer() call, or a set* call with duration 0, made from the *)
(* normal context returns with the global interrupt flag (SREG bit 7) as   *)
(* it found it. Stated for the calls that cancel a timer whose expiries    *)
(* were being delivered, so that the flag was set when the call was made   *)
(* (an expiry is delivered only with the flag set, and neither the idle    *)
(* normal context nor a handler that returns clears it).                   *)
(***************************************************************************)
C20_GlobalFlagKept ==
    (Returned
        /\ (call.op = "clearTimer" \/ (call.op \in SetOps /\ call.d = 0))
        /\ pre.type # UTIMERLIB_TYPE_OFF /\ ~pre.fresh) =>
        SREG_I

====
